---------------------------- MODULE Spec2Model ----------------------------
(***************************************************************************)
(* keras-resnet: the graph wiring of models/_2d.py (ResNet2D and its       *)
(* variants ResNet2D18 .. ResNet2D200) and of the residual blocks of        *)
(* blocks/_1d.py (basic_1d, bottleneck_1d).                                 *)
(*                                                                         *)
(* A construction is a run of the state machine: the call binds the        *)
(* parameters, the stem is emitted, the stage/block loop emits one block   *)
(* per step, and the top (or the list of stage outputs) closes the model.  *)
(* Every framework layer that the code instantiates is one record of the   *)
(* sequence `layers`; the tensor a layer returns is named by the layer's   *)
(* position in that sequence, and tensor 0 is the input tensor.            *)
(*                                                                         *)
(* Strings are sequences of character codes, so that str(), chr() and      *)
(* format() are computed and two names are equal exactly when the Python   *)
(* strings are.                                                            *)
(*                                                                         *)
(* The block functions of the variants (basic_2d and bottleneck_2d of      *)
(* blocks/_2d.py) are taken to wire their layers by the rules of basic_1d  *)
(* and bottleneck_1d.                                                      *)
(***************************************************************************)
EXTENDS Integers, Sequences, FiniteSets, TLC

VARIABLES
    pc,               \* position of the construction
    callee,           \* the class or function that the caller called
    args,             \* the arguments as the caller passed them
    init_args,        \* the arguments ResNet2D.__init__ is called with
    inputs,           \* shape of the input tensor: [len, ch]
    residual_blocks,  \* ResNet2D.__init__ parameters, once bound
    block,
    include_top,
    classes,
    freeze_bn,
    numerical_names,
    features,         \* ResNet2D.__init__ locals
    outputs,
    stage_id,
    block_id,
    x,
    closure,          \* what the last call of a block function closed over
    layers,           \* every layer instantiated so far, in creation order
    model             \* the keras Model built by super().__init__, or None

vars == <<pc, callee, args, init_args, inputs, residual_blocks, block, include_top,
          classes, freeze_bn, numerical_names, features, outputs, stage_id,
          block_id, x, closure, layers, model>>

-----------------------------------------------------------------------------
(* Bounds of the model *)

MaxStages == 2        \* longest residual_blocks list enumerated in full
MaxBlocks == 2        \* largest block count of a stage in such a list
MaxExtraStages == 1   \* uniform lists range up to 4 + MaxExtraStages stages
MaxStageArg == 2      \* largest stage passed to a block function directly
MaxBlockArg == 11     \* largest block passed to a block function directly
MaxStride == 3        \* largest explicit stride
MaxLen == 4           \* longest input of a directly called block

-----------------------------------------------------------------------------
(* Python values *)

None == {}
Some(v) == {v}
Get(o) == CHOOSE v \in o : TRUE
OrDefault(o, d) == IF o = None THEN d ELSE Get(o)

\* str(n) for n >= 0: the decimal digits, most significant first
RECURSIVE str(_)
str(n) == IF n < 10 THEN <<48 + n>> ELSE str(n \div 10) \o <<48 + (n % 10)>>

\* chr(ord('a') + n)
chr_a(n) == <<97 + n>>

RECURSIVE Flatten(_)
Flatten(ss) == IF ss = <<>> THEN <<>> ELSE Head(ss) \o Flatten(Tail(ss))

\* every list of length n over the set S
ListsOf(S, n) == [1..n -> S]
ListsUpTo(S, n) == UNION {ListsOf(S, k) : k \in 0..n}

RECURSIVE Sum(_)
Sum(s) == IF s = <<>> THEN 0 ELSE Head(s) + Sum(Tail(s))

CeilDiv(a, b) == (a + b - 1) \div b

-----------------------------------------------------------------------------
(* String literals of the source *)

s_res == <<114, 101, 115>>
s_bn == <<98, 110>>
s_padding == <<112, 97, 100, 100, 105, 110, 103>>
s_b == <<98>>
s_branch2a == <<95, 98, 114, 97, 110, 99, 104, 50, 97>>
s_branch2b == <<95, 98, 114, 97, 110, 99, 104, 50, 98>>
s_branch2c == <<95, 98, 114, 97, 110, 99, 104, 50, 99>>
s_branch1 == <<95, 98, 114, 97, 110, 99, 104, 49>>
s_relu == <<95, 114, 101, 108, 117>>
s_conv1 == <<99, 111, 110, 118, 49>>
s_bn_conv1 == <<98, 110, 95, 99, 111, 110, 118, 49>>
s_conv1_relu == <<99, 111, 110, 118, 49, 95, 114, 101, 108, 117>>
s_pool1 == <<112, 111, 111, 108, 49>>
s_pool5 == <<112, 111, 111, 108, 53>>
s_fc1000 == <<102, 99, 49, 48, 48, 48>>

-----------------------------------------------------------------------------
(* Framework layers.  A constructor returns the layer as configured;        *)
(* calling the layer on tensors appends it to the list with its inbound      *)
(* tensors and the shape of the tensor it returns.  A tensor is the position *)
(* of its layer in the list; tensor 0 is `inputs`.                           *)

Conv(filters, kernel_size, strides, padding, name) ==
    [type |-> "Conv", name |-> name, filters |-> filters,
     kernel_size |-> kernel_size, strides |-> strides, padding |-> padding]

BatchNormalization(freeze, name) ==
    [type |-> "BatchNormalization", name |-> name, freeze |-> freeze]

Activation(activation, name) ==
    [type |-> "Activation", name |-> name, activation |-> activation]

ZeroPadding(padding, name) ==
    [type |-> "ZeroPadding", name |-> name, padding |-> padding]

MaxPooling(pool_size, strides, padding, name) ==
    [type |-> "MaxPooling", name |-> name, pool_size |-> pool_size,
     strides |-> strides, padding |-> padding]

Add(name) == [type |-> "Add", name |-> name]

GlobalAveragePooling(name) == [type |-> "GlobalAveragePooling", name |-> name]

Dense(units, activation, name) ==
    [type |-> "Dense", name |-> name, units |-> units, activation |-> activation]

TensorLen(inp, ls, t) == IF t = 0 THEN inp.len ELSE ls[t].len
TensorCh(inp, ls, t) == IF t = 0 THEN inp.ch ELSE ls[t].ch

\* length after a convolution or a pooling window
WindowLen(len, kernel, strides, padding) ==
    IF padding = "same" THEN CeilDiv(len, strides)
    ELSE ((len - kernel) \div strides) + 1

\* spatial length of the tensor layer d returns for an input of length len
OutLen(d, len) ==
    CASE d.type = "Conv" -> WindowLen(len, d.kernel_size, d.strides, d.padding)
      [] d.type = "MaxPooling" -> WindowLen(len, d.pool_size, d.strides, d.padding)
      [] d.type = "ZeroPadding" -> len + 2 * d.padding
      [] d.type \in {"GlobalAveragePooling", "Dense"} -> 1
      [] OTHER -> len

\* channels of the tensor layer d returns for an input of ch channels
OutCh(d, ch) ==
    CASE d.type = "Conv" -> d.filters
      [] d.type = "Dense" -> d.units
      [] OTHER -> ch

\* elementwise merge of two dimensions: a dimension of size 1 is broadcast
BroadcastDim(i, j) == IF i = 1 THEN j ELSE i

\* length and channels of what a layer is called on: the tensor itself, and
\* for the two operands of a merge layer their broadcast shape
InboundLen(inp, ls, ts) ==
    IF Len(ts) = 1 THEN TensorLen(inp, ls, ts[1])
    ELSE BroadcastDim(TensorLen(inp, ls, ts[1]), TensorLen(inp, ls, ts[2]))

InboundCh(inp, ls, ts) ==
    IF Len(ts) = 1 THEN TensorCh(inp, ls, ts[1])
    ELSE BroadcastDim(TensorCh(inp, ls, ts[1]), TensorCh(inp, ls, ts[2]))

\* layer(ts): the list with the layer d called on the tensors ts
Call(inp, ls, ts, d) ==
    Append(ls, d @@ [inbound |-> ts,
                     len |-> OutLen(d, InboundLen(inp, ls, ts)),
                     ch |-> OutCh(d, InboundCh(inp, ls, ts))])

\* y = d1(t); y = d2(y); ...: each layer of ds called on the tensor before it
RECURSIVE Sequential(_, _, _, _)
Sequential(inp, ls, t, ds) ==
    IF ds = <<>> THEN ls
    ELSE Sequential(inp, Call(inp, ls, <<t>>, Head(ds)), Len(ls) + 1, Tail(ds))

\* two dimensions merge when they are equal or one of them is 1
DimsMerge(i, j) == i = j \/ i = 1 \/ j = 1

\* keras.layers.Add broadcasts a dimension of size 1 and refuses operands
\* whose shapes differ in any other way
AddAccepts(inp, ls, a, b) ==
    /\ DimsMerge(TensorLen(inp, ls, a), TensorLen(inp, ls, b))
    /\ DimsMerge(TensorCh(inp, ls, a), TensorCh(inp, ls, b))

\* the tensor returned by the layer created last
Last(ls) == Len(ls)

-----------------------------------------------------------------------------
(* blocks/_1d.py: what basic_1d and bottleneck_1d compute before returning f *)

\* mutant: the stride follows the stage alone
basic_1d_stride_stage_only(stage, blk, stride) ==
    IF stride = None
    THEN IF stage = 0 THEN 1 ELSE 2
    ELSE Get(stride)

basic_1d_stride(stage, blk, stride) ==
    IF stride = None
    THEN IF blk # 0 \/ stage = 0 THEN 1 ELSE 2
    ELSE Get(stride)

\* mutant: `and` for `or`
bottleneck_1d_stride_and(stage, blk, stride) ==
    IF stride = None
    THEN (IF blk # 0 /\ stage = 0 THEN 1 ELSE 2)
    ELSE Get(stride)

bottleneck_1d_stride(stage, blk, stride) ==
    IF stride = None
    THEN (IF blk # 0 \/ stage = 0 THEN 1 ELSE 2)
    ELSE Get(stride)

\* mutant: the number starts one block late
basic_1d_block_char_late(blk, numerical_name) ==
    IF blk > 1 /\ numerical_name THEN s_b \o str(blk) ELSE chr_a(blk)

basic_1d_block_char(blk, numerical_name) ==
    IF blk > 0 /\ numerical_name THEN s_b \o str(blk) ELSE chr_a(blk)

\* mutant: the number is left out of the name
bottleneck_1d_block_char_bare(blk, numerical_name) ==
    IF blk > 0 /\ numerical_name THEN s_b ELSE chr_a(blk)

bottleneck_1d_block_char(blk, numerical_name) ==
    IF blk > 0 /\ numerical_name THEN s_b \o str(blk) ELSE chr_a(blk)

basic_1d_stage_char(stage) == str(stage + 2)

bottleneck_1d_stage_char(stage) == str(stage + 2)

\* "<prefix>{}{}<suffix>".format(stage_char, block_char)
Format(prefix, sc, bc, suffix) == Flatten(<<prefix, sc, bc, suffix>>)

basic_1d(filters, stage, blk, kernel_size, numerical_name, stride, freeze) ==
    [fn |-> "basic_1d", filters |-> filters, kernel_size |-> kernel_size,
     block |-> blk, freeze_bn |-> freeze,
     stride |-> basic_1d_stride(stage, blk, stride),
     block_char |-> basic_1d_block_char(blk, numerical_name),
     stage_char |-> basic_1d_stage_char(stage)]

bottleneck_1d(filters, stage, blk, kernel_size, numerical_name, stride, freeze) ==
    [fn |-> "bottleneck_1d", filters |-> filters, kernel_size |-> kernel_size,
     block |-> blk, freeze_bn |-> freeze,
     stride |-> bottleneck_1d_stride(stage, blk, stride),
     block_char |-> bottleneck_1d_block_char(blk, numerical_name),
     stage_char |-> bottleneck_1d_stage_char(stage)]

-----------------------------------------------------------------------------
(* f(x): the layers of the main branch and of the shortcut, in the order    *)
(* the code creates them                                                     *)

basic_1d_main(c) ==
    LET sc == c.stage_char
        bc == c.block_char
    IN  <<ZeroPadding(1, Format(s_padding, sc, bc, s_branch2a)),
          Conv(c.filters, c.kernel_size, c.stride, "valid",
               Format(s_res, sc, bc, s_branch2a)),
          BatchNormalization(c.freeze_bn, Format(s_bn, sc, bc, s_branch2a)),
          Activation("relu", Format(s_res, sc, bc, s_branch2a \o s_relu)),
          ZeroPadding(1, Format(s_padding, sc, bc, s_branch2b)),
          Conv(c.filters, c.kernel_size, 1, "valid",
               Format(s_res, sc, bc, s_branch2b)),
          BatchNormalization(c.freeze_bn, Format(s_bn, sc, bc, s_branch2b))>>

basic_1d_shortcut(c) ==
    IF c.block = 0
    THEN <<Conv(c.filters, 1, c.stride, "valid",
                Format(s_res, c.stage_char, c.block_char, s_branch1)),
           BatchNormalization(c.freeze_bn,
                Format(s_bn, c.stage_char, c.block_char, s_branch1))>>
    ELSE <<>>

bottleneck_1d_main(c) ==
    LET sc == c.stage_char
        bc == c.block_char
    IN  <<Conv(c.filters, 1, c.stride, "valid", Format(s_res, sc, bc, s_branch2a)),
          BatchNormalization(c.freeze_bn, Format(s_bn, sc, bc, s_branch2a)),
          Activation("relu", Format(s_res, sc, bc, s_branch2a \o s_relu)),
          ZeroPadding(1, Format(s_padding, sc, bc, s_branch2b)),
          Conv(c.filters, c.kernel_size, 1, "valid",
               Format(s_res, sc, bc, s_branch2b)),
          BatchNormalization(c.freeze_bn, Format(s_bn, sc, bc, s_branch2b)),
          Activation("relu", Format(s_res, sc, bc, s_branch2b \o s_relu)),
          Conv(c.filters * 4, 1, 1, "valid", Format(s_res, sc, bc, s_branch2c)),
          BatchNormalization(c.freeze_bn, Format(s_bn, sc, bc, s_branch2c))>>

bottleneck_1d_shortcut(c) ==
    IF c.block = 0
    THEN <<Conv(c.filters * 4, 1, c.stride, "valid",
                Format(s_res, c.stage_char, c.block_char, s_branch1)),
           BatchNormalization(c.freeze_bn,
                Format(s_bn, c.stage_char, c.block_char, s_branch1))>>
    ELSE <<>>

MainOf(c) == IF c.fn = "basic_1d" THEN basic_1d_main(c) ELSE bottleneck_1d_main(c)
ShortcutOf(c) ==
    IF c.fn = "basic_1d" THEN basic_1d_shortcut(c) ELSE bottleneck_1d_shortcut(c)

\* f(x) up to the Add: the layers of both branches and the two operands
Branches(c, inp, ls, xin) ==
    LET m == Sequential(inp, ls, xin, MainOf(c))
        s == Sequential(inp, m, xin, ShortcutOf(c))
    IN  [ls |-> s, y |-> Len(ls) + Len(MainOf(c)),
         shortcut |-> IF c.block = 0 THEN Len(s) ELSE xin]

\* the Add and the final Activation, common to both blocks
Merge(c, inp, br) ==
    Sequential(inp, Call(inp, br.ls, <<br.y, br.shortcut>>,
                         Add(Format(s_res, c.stage_char, c.block_char, <<>>))),
               Len(br.ls) + 1,
               <<Activation("relu",
                            Format(s_res, c.stage_char, c.block_char, s_relu))>>)

\* f(x): the layer list after the block
f(c, inp, ls, xin) == Merge(c, inp, Branches(c, inp, ls, xin))

-----------------------------------------------------------------------------
(* models/_2d.py: the tables of the variants *)

Variants == {"ResNet2D18", "ResNet2D34", "ResNet2D50",
             "ResNet2D101", "ResNet2D152", "ResNet2D200"}

\* blocks.basic_2d and blocks.bottleneck_2d, wired as their 1d counterparts
basic_2d == "basic_1d"
bottleneck_2d == "bottleneck_1d"

\* mutant: one block short in the third stage of ResNet2D101
DefaultResidualBlocks_short(cls) ==
    CASE cls = "ResNet2D18"  -> <<2, 2, 2, 2>>
      [] cls = "ResNet2D34"  -> <<3, 4, 6, 3>>
      [] cls = "ResNet2D50"  -> <<3, 4, 6, 3>>
      [] cls = "ResNet2D101" -> <<3, 4, 22, 3>>
      [] cls = "ResNet2D152" -> <<3, 8, 36, 3>>
      [] cls = "ResNet2D200" -> <<3, 24, 36, 3>>

\* `if residual_blocks is None: residual_blocks = [...]`
DefaultResidualBlocks(cls) ==
    CASE cls = "ResNet2D18"  -> <<2, 2, 2, 2>>
      [] cls = "ResNet2D34"  -> <<3, 4, 6, 3>>
      [] cls = "ResNet2D50"  -> <<3, 4, 6, 3>>
      [] cls = "ResNet2D101" -> <<3, 4, 23, 3>>
      [] cls = "ResNet2D152" -> <<3, 8, 36, 3>>
      [] cls = "ResNet2D200" -> <<3, 24, 36, 3>>

\* the block= argument of the super().__init__ call
VariantBlock(cls) ==
    IF cls \in {"ResNet2D18", "ResNet2D34"} THEN basic_2d ELSE bottleneck_2d

\* the numerical_names= argument of the super().__init__ call (None: not passed)
VariantNumericalNames(cls) ==
    CASE cls \in {"ResNet2D18", "ResNet2D34"} -> None
      [] cls = "ResNet2D50" -> Some(<<FALSE, FALSE, FALSE, FALSE>>)
      [] cls \in {"ResNet2D101", "ResNet2D152", "ResNet2D200"}
           -> Some(<<FALSE, TRUE, TRUE, FALSE>>)

\* default of classes in every signature
DefaultClasses == 1000

\* default of freeze_bn in the signature of the called __init__
DefaultFreezeBn(cls) == IF cls = "ResNet2D" THEN TRUE ELSE FALSE

\* mutant: freeze_bn is not handed on
SuperArgs_no_freeze(cls, a) ==
    [residual_blocks |-> OrDefault(a.residual_blocks, DefaultResidualBlocks(cls)),
     block |-> VariantBlock(cls),
     include_top |-> a.include_top,
     classes |-> Some(OrDefault(a.classes, DefaultClasses)),
     freeze_bn |-> None,
     numerical_names |-> VariantNumericalNames(cls)]

\* the arguments a variant hands to ResNet2D.__init__
SuperArgs(cls, a) ==
    [residual_blocks |-> OrDefault(a.residual_blocks, DefaultResidualBlocks(cls)),
     block |-> VariantBlock(cls),
     include_top |-> a.include_top,
     classes |-> Some(OrDefault(a.classes, DefaultClasses)),
     freeze_bn |-> Some(OrDefault(a.freeze_bn, DefaultFreezeBn(cls))),
     numerical_names |-> VariantNumericalNames(cls)]

\* `if numerical_names is None: numerical_names = [True] * len(residual_blocks)`
BindNumericalNames(nn, rb) ==
    IF nn = None THEN [i \in 1..Len(rb) |-> TRUE] ELSE Get(nn)

\* block(features, stage_id, block_id, numerical_name=..., freeze_bn=...)
CallBlock(b, filters, stage, blk, numerical_name, freeze) ==
    IF b = "basic_1d"
    THEN basic_1d(filters, stage, blk, 3, numerical_name, None, freeze)
    ELSE bottleneck_1d(filters, stage, blk, 3, numerical_name, None, freeze)

\* conv1, bn_conv1, conv1_relu, pool1
Stem(inp, freeze) ==
    Sequential(inp, <<>>, 0,
               <<Conv(64, 7, 2, "same", s_conv1),
                 BatchNormalization(freeze, s_bn_conv1),
                 Activation("relu", s_conv1_relu),
                 MaxPooling(3, 2, "same", s_pool1)>>)

\* pool5, fc1000
Top(inp, ls, t, n) ==
    Sequential(inp, ls, t,
               <<GlobalAveragePooling(s_pool5),
                 Dense(n, "softmax", s_fc1000)>>)

\* mutant: zero classes pass
AssertClasses_nonnegative(n) == n >= 0

\* `assert classes > 0`
AssertClasses(n) == n > 0

-----------------------------------------------------------------------------
(* Inputs *)

Classes == {-1, 0, 1}
OptBool == {None, Some(TRUE), Some(FALSE)}
InputShapes == {[len |-> 224, ch |-> 3]}

\* every residual_blocks list of at most MaxStages stages
FullLists == ListsUpTo(0..MaxBlocks, MaxStages)

\* the lists of at most one stage
ShortLists == ListsUpTo(0..MaxBlocks, 1)

\* lists longer than the four entries of the variants' numerical_names
UniformLists ==
    {[i \in 1..n |-> c] : n \in 5..(4 + MaxExtraStages), c \in 1..MaxBlocks}

\* numerical_names as documented: None, or a list of bool of the same size
NumericalNamesFor(rb) == {None} \cup {Some(l) : l \in ListsOf(BOOLEAN, Len(rb))}

\* The calls of ResNet2D: every architecture with classes and freeze_bn
\* omitted, and every choice of classes and freeze_bn on the short lists.
ResNet2DArgs ==
    UNION {[residual_blocks : {rb},
            block : {"basic_1d", "bottleneck_1d"},
            numerical_names : NumericalNamesFor(rb),
            include_top : BOOLEAN,
            classes : {None},
            freeze_bn : {None}] : rb \in FullLists}
    \cup
    [residual_blocks : ShortLists,
     block : {"basic_1d", "bottleneck_1d"},
     numerical_names : {None},
     include_top : BOOLEAN,
     classes : {None} \cup {Some(n) : n \in Classes},
     freeze_bn : OptBool]

\* The calls of a variant, likewise.
VariantArgs ==
    [residual_blocks : {None} \cup {Some(rb) : rb \in FullLists \cup UniformLists},
     include_top : BOOLEAN,
     classes : {None},
     freeze_bn : {None}]
    \cup
    [residual_blocks : {None} \cup {Some(rb) : rb \in ShortLists},
     include_top : BOOLEAN,
     classes : {None} \cup {Some(n) : n \in Classes},
     freeze_bn : OptBool]

NoArgs == [residual_blocks |-> <<>>, block |-> "", include_top |-> FALSE,
           classes |-> None, freeze_bn |-> None, numerical_names |-> None]
NoClosure == [fn |-> "", filters |-> 0, kernel_size |-> 0, block |-> 0,
              freeze_bn |-> FALSE, stride |-> 0, block_char |-> <<>>,
              stage_char |-> <<>>]

\* nothing of ResNet2D.__init__ has run
Unbound ==
    /\ residual_blocks = <<>>
    /\ block = ""
    /\ include_top = FALSE
    /\ classes = 0
    /\ freeze_bn = FALSE
    /\ numerical_names = <<>>
    /\ features = 0
    /\ outputs = <<>>
    /\ stage_id = 0
    /\ block_id = 0
    /\ x = 0
    /\ closure = NoClosure
    /\ layers = <<>>
    /\ model = None

\* a caller calls ResNet2D or one of its variants
Init ==
    /\ callee \in {"ResNet2D"} \cup Variants
    /\ args \in IF callee = "ResNet2D" THEN ResNet2DArgs ELSE VariantArgs
    /\ init_args = IF callee = "ResNet2D" THEN args ELSE NoArgs
    /\ pc = IF callee = "ResNet2D" THEN "ResNet2D.__init__" ELSE "call"
    /\ inputs \in InputShapes
    /\ Unbound

-----------------------------------------------------------------------------
(* Actions of a construction *)

\* ResNet2D18.__init__ .. ResNet2D200.__init__, up to the super().__init__ call
VariantInit(cls) ==
    /\ pc = "call"
    /\ callee = cls
    /\ init_args' = SuperArgs(cls, args)
    /\ pc' = "ResNet2D.__init__"
    /\ UNCHANGED <<callee, args, inputs, residual_blocks, block, include_top,
                   classes, freeze_bn, numerical_names, features, outputs,
                   stage_id, block_id, x, closure, layers, model>>

ResNet2D18Init == VariantInit("ResNet2D18")
ResNet2D34Init == VariantInit("ResNet2D34")
ResNet2D50Init == VariantInit("ResNet2D50")
ResNet2D101Init == VariantInit("ResNet2D101")
ResNet2D152Init == VariantInit("ResNet2D152")
ResNet2D200Init == VariantInit("ResNet2D200")

\* ResNet2D.__init__ from its signature to `outputs = []`
ResNet2DInit ==
    /\ pc = "ResNet2D.__init__"
    /\ residual_blocks' = init_args.residual_blocks
    /\ block' = init_args.block
    /\ include_top' = init_args.include_top
    /\ classes' = OrDefault(init_args.classes, DefaultClasses)
    /\ freeze_bn' = OrDefault(init_args.freeze_bn, DefaultFreezeBn("ResNet2D"))
    /\ numerical_names' =
           BindNumericalNames(init_args.numerical_names, init_args.residual_blocks)
    /\ layers' = Stem(inputs, freeze_bn')
    /\ x' = Last(layers')
    /\ features' = 64
    /\ outputs' = <<>>
    /\ stage_id' = 0
    /\ block_id' = 0
    /\ pc' = "loop"
    /\ UNCHANGED <<callee, args, init_args, inputs, closure, model>>

\* the loops have a block left to build
InLoop ==
    /\ pc = "loop"
    /\ stage_id < Len(residual_blocks)
    /\ block_id < residual_blocks[stage_id + 1]

\* numerical_names[stage_id] is evaluated (block_id > 0) and is in range
LookupInRange == block_id > 0 => stage_id < Len(numerical_names)

\* one pass of the inner loop: x = block(...)(x)
LoopBlock ==
    /\ InLoop
    /\ LookupInRange
    /\ closure' = CallBlock(block, features, stage_id, block_id,
                            block_id > 0 /\ numerical_names[stage_id + 1],
                            freeze_bn)
    /\ layers' = f(closure', inputs, layers, x)
    /\ x' = Last(layers')
    /\ block_id' = block_id + 1
    /\ UNCHANGED <<pc, callee, args, init_args, inputs, residual_blocks, block,
                   include_top, classes, freeze_bn, numerical_names, features,
                   outputs, stage_id, model>>

\* numerical_names[stage_id] with stage_id past the end of the list
LoopIndexError ==
    /\ InLoop
    /\ ~LookupInRange
    /\ pc' = "IndexError"
    /\ UNCHANGED <<callee, args, init_args, inputs, residual_blocks, block,
                   include_top, classes, freeze_bn, numerical_names, features,
                   outputs, stage_id, block_id, x, closure, layers, model>>

\* mutant: the stage's features are put in front of the list
LoopStageEnd_prepend ==
    /\ pc = "loop"
    /\ stage_id < Len(residual_blocks)
    /\ block_id = residual_blocks[stage_id + 1]
    /\ features' = features * 2
    /\ outputs' = <<x>> \o outputs
    /\ stage_id' = stage_id + 1
    /\ block_id' = 0
    /\ UNCHANGED <<pc, callee, args, init_args, inputs, residual_blocks, block,
                   include_top, classes, freeze_bn, numerical_names, x, closure,
                   layers, model>>

\* the inner loop is exhausted: features *= 2; outputs.append(x)
LoopStageEnd ==
    /\ pc = "loop"
    /\ stage_id < Len(residual_blocks)
    /\ block_id = residual_blocks[stage_id + 1]
    /\ features' = features * 2
    /\ outputs' = Append(outputs, x)
    /\ stage_id' = stage_id + 1
    /\ block_id' = 0
    /\ UNCHANGED <<pc, callee, args, init_args, inputs, residual_blocks, block,
                   include_top, classes, freeze_bn, numerical_names, x, closure,
                   layers, model>>

LoopDone == pc = "loop" /\ stage_id = Len(residual_blocks)

\* include_top and the assertion fails
TopAssertionError ==
    /\ LoopDone
    /\ include_top
    /\ ~AssertClasses(classes)
    /\ pc' = "AssertionError"
    /\ UNCHANGED <<callee, args, init_args, inputs, residual_blocks, block,
                   include_top, classes, freeze_bn, numerical_names, features,
                   outputs, stage_id, block_id, x, closure, layers, model>>

\* include_top: pool5, fc1000 and the Model over the single output
TopModel ==
    /\ LoopDone
    /\ include_top
    /\ AssertClasses(classes)
    /\ layers' = Top(inputs, layers, x, classes)
    /\ x' = Last(layers')
    /\ model' = Some([inputs |-> 0, outputs |-> <<x'>>])
    /\ pc' = "done"
    /\ UNCHANGED <<callee, args, init_args, inputs, residual_blocks, block,
                   include_top, classes, freeze_bn, numerical_names, features,
                   outputs, stage_id, block_id, closure>>

\* else: the Model over each stage's features
EncodingModel ==
    /\ LoopDone
    /\ ~include_top
    /\ model' = Some([inputs |-> 0, outputs |-> outputs])
    /\ pc' = "done"
    /\ UNCHANGED <<callee, args, init_args, inputs, residual_blocks, block,
                   include_top, classes, freeze_bn, numerical_names, features,
                   outputs, stage_id, block_id, x, closure, layers>>

Next ==
    \/ ResNet2D18Init
    \/ ResNet2D34Init
    \/ ResNet2D50Init
    \/ ResNet2D101Init
    \/ ResNet2D152Init
    \/ ResNet2D200Init
    \/ ResNet2DInit
    \/ LoopBlock
    \/ LoopIndexError
    \/ LoopStageEnd
    \/ TopAssertionError
    \/ TopModel
    \/ EncodingModel

Spec == Init /\ [][Next]_vars

-----------------------------------------------------------------------------
(* A caller calls basic_1d or bottleneck_1d and applies the returned f *)

BlockArgs ==
    [filters : {64},
     stage : 0..MaxStageArg,
     block : 0..MaxBlockArg,
     kernel_size : {1, 3},
     numerical_name : BOOLEAN,
     stride : {None} \cup {Some(n) : n \in 1..MaxStride},
     freeze_bn : BOOLEAN]

BlockInputShapes == [len : 1..MaxLen, ch : {64, 256}]

InitBlock ==
    /\ callee \in {"basic_1d", "bottleneck_1d"}
    /\ args \in BlockArgs
    /\ init_args = NoArgs
    /\ pc = "call"
    /\ inputs \in BlockInputShapes
    /\ Unbound

\* basic_1d(...) returns f
BasicCall ==
    /\ pc = "call"
    /\ callee = "basic_1d"
    /\ closure' = basic_1d(args.filters, args.stage, args.block, args.kernel_size,
                           args.numerical_name, args.stride, args.freeze_bn)
    /\ pc' = "f"
    /\ UNCHANGED <<callee, args, init_args, inputs, residual_blocks, block,
                   include_top, classes, freeze_bn, numerical_names, features,
                   outputs, stage_id, block_id, x, layers, model>>

\* bottleneck_1d(...) returns f
BottleneckCall ==
    /\ pc = "call"
    /\ callee = "bottleneck_1d"
    /\ closure' = bottleneck_1d(args.filters, args.stage, args.block,
                                args.kernel_size, args.numerical_name,
                                args.stride, args.freeze_bn)
    /\ pc' = "f"
    /\ UNCHANGED <<callee, args, init_args, inputs, residual_blocks, block,
                   include_top, classes, freeze_bn, numerical_names, features,
                   outputs, stage_id, block_id, x, layers, model>>

\* whether the Add of f(x) accepts its operands, f applied to the input tensor
FAccepted(c, inp) ==
    AddAccepts(inp, Branches(c, inp, <<>>, 0).ls,
               Branches(c, inp, <<>>, 0).y, Branches(c, inp, <<>>, 0).shortcut)

\* f(x) runs to its return
ApplyF ==
    /\ pc = "f"
    /\ FAccepted(closure, inputs)
    /\ layers' = f(closure, inputs, <<>>, 0)
    /\ x' = Last(layers')
    /\ pc' = "done"
    /\ UNCHANGED <<callee, args, init_args, inputs, residual_blocks, block,
                   include_top, classes, freeze_bn, numerical_names, features,
                   outputs, stage_id, block_id, closure, model>>

\* f(x) stops at the Add: the framework refuses the two operands
ApplyFValueError ==
    /\ pc = "f"
    /\ ~FAccepted(closure, inputs)
    /\ layers' = Branches(closure, inputs, <<>>, 0).ls
    /\ pc' = "ValueError"
    /\ UNCHANGED <<callee, args, init_args, inputs, residual_blocks, block,
                   include_top, classes, freeze_bn, numerical_names, features,
                   outputs, stage_id, block_id, x, closure, model>>

NextBlock ==
    \/ BasicCall
    \/ BottleneckCall
    \/ ApplyF
    \/ ApplyFValueError

SpecBlock == InitBlock /\ [][NextBlock]_vars

-----------------------------------------------------------------------------
(* Vocabulary of the properties *)

EndsWith(name, suffix) ==
    /\ Len(name) >= Len(suffix)
    /\ SubSeq(name, Len(name) - Len(suffix) + 1, Len(name)) = suffix

\* the decimal numeral of n < 100, digit by digit
Decimal(n) == IF n < 10 THEN <<48 + n>> ELSE <<48 + (n \div 10), 48 + (n % 10)>>

IsConv(l) == l.type = "Conv"
IsProjection(l) == IsConv(l) /\ EndsWith(l.name, s_branch1)
IsBN(l) == l.type = "BatchNormalization"

\* positions of the layers of `layers` that satisfy P
Where(P(_)) == {i \in DOMAIN layers : P(layers[i])}

\* tensor 4 is the output of pool1, the last layer of the stem
StemOutput == 4

\* The Add of every block built by ResNet2D receives operands of one shape, so
\* that no construction through ResNet2D stops inside a block.
AddOperandsAgree ==
    \A i \in DOMAIN layers :
        layers[i].type = "Add" =>
            /\ TensorLen(inputs, layers, layers[i].inbound[1])
                   = TensorLen(inputs, layers, layers[i].inbound[2])
            /\ TensorCh(inputs, layers, layers[i].inbound[1])
                   = TensorCh(inputs, layers, layers[i].inbound[2])

-----------------------------------------------------------------------------
(* C1 *)

NameNumber(cls) ==
    CASE cls = "ResNet2D18" -> 18
      [] cls = "ResNet2D34" -> 34
      [] cls = "ResNet2D50" -> 50
      [] cls = "ResNet2D101" -> 101
      [] cls = "ResNet2D152" -> 152
      [] cls = "ResNet2D200" -> 200

IsWeightedMainPath(l) == (IsConv(l) /\ ~IsProjection(l)) \/ l.type = "Dense"

\* convolutions on the main path of the blocks (all but conv1 and the projections)
IsBlockConv(l) == IsConv(l) /\ ~IsProjection(l) /\ l.name # s_conv1

\* C1: a variant built with residual_blocks left at its default and
\* include_top=True has as many weighted layers on its main path (conv1, the
\* convolutions of the blocks without the shortcut projections, the dense
\* layer) as its name says; the blocks carry 2 such convolutions each in
\* ResNet2D18/34 and 3 each in the other variants, over sum(residual_blocks)
\* blocks of the tabulated lists.
C1_LayerCount ==
    (pc = "done" /\ callee \in Variants /\ args.residual_blocks = None /\ include_top)
    => /\ Cardinality(Where(IsWeightedMainPath)) = NameNumber(callee)
       /\ Cardinality(Where(IsBlockConv)) =
              (IF callee \in {"ResNet2D18", "ResNet2D34"} THEN 2 ELSE 3)
                  * Sum(residual_blocks)
       /\ block = (IF callee \in {"ResNet2D18", "ResNet2D34"}
                   THEN "basic_1d" ELSE "bottleneck_1d")
       /\ residual_blocks =
              (CASE callee = "ResNet2D18" -> <<2, 2, 2, 2>>
                 [] callee \in {"ResNet2D34", "ResNet2D50"} -> <<3, 4, 6, 3>>
                 [] callee = "ResNet2D101" -> <<3, 4, 23, 3>>
                 [] callee = "ResNet2D152" -> <<3, 8, 36, 3>>
                 [] callee = "ResNet2D200" -> <<3, 24, 36, 3>>)

C1_Witness ==
    /\ pc = "done"
    /\ callee = "ResNet2D101"
    /\ args.residual_blocks = None
    /\ include_top
    /\ Cardinality(Where(IsWeightedMainPath)) = 101

-----------------------------------------------------------------------------
(* C2 *)

\* the tensor that the loop leaves in x
XAfterLoop == IF outputs = <<>> THEN StemOutput ELSE outputs[Len(outputs)]

\* the model has one output: fc1000 over pool5 over the last stage
ClassificationOutput ==
    /\ model # None
    /\ Len(Get(model).outputs) = 1
    /\ LET d == layers[Get(model).outputs[1]]
           p == layers[d.inbound[1]]
       IN  /\ d.type = "Dense" /\ d.units = classes /\ d.activation = "softmax"
           /\ p.type = "GlobalAveragePooling"
           /\ p.inbound = <<XAfterLoop>>

\* name of the Activation that ends block blk of stage number i (from 1)
BlockOutputName(i, blk) ==
    s_res \o Decimal(i + 1)
          \o (IF blk > 0 /\ numerical_names[i] THEN s_b \o Decimal(blk) ELSE <<97 + blk>>)
          \o s_relu

\* output number i is what the last block of stage i returned
IsLastBlockOf(t, i) ==
    /\ residual_blocks[i] > 0
    /\ t # 0
    /\ layers[t].name = BlockOutputName(i, residual_blocks[i] - 1)

\* output number i is the tensor that entered stage i
IsEntryOf(t, i) == t = (IF i = 1 THEN StemOutput ELSE Get(model).outputs[i - 1])

\* C2 as stated: every one of the len(residual_blocks) outputs is the
\* tensor of the last block of its stage.
C2_Original ==
    pc = "done" =>
        IF include_top THEN ClassificationOutput
        ELSE /\ model # None
             /\ Len(Get(model).outputs) = Len(residual_blocks)
             /\ \A i \in 1..Len(residual_blocks) :
                    IsLastBlockOf(Get(model).outputs[i], i)

\* C2 (amended): with include_top the model has exactly one output, the softmax
\* dense layer of `classes` units over the global average pool of the tensor
\* the loop leaves (the last stage's output; pool1 for an empty list); without
\* it the model has len(residual_blocks) outputs in stage order, the i-th
\* being the tensor of the last block of stage i when the stage has a block
\* and the tensor that entered the stage (the previous output, or pool1 for
\* the first stage) when its block count is 0.
C2_Outputs ==
    pc = "done" =>
        IF include_top THEN ClassificationOutput
        ELSE /\ model # None
             /\ Len(Get(model).outputs) = Len(residual_blocks)
             /\ \A i \in 1..Len(residual_blocks) :
                    IF residual_blocks[i] > 0
                    THEN IsLastBlockOf(Get(model).outputs[i], i)
                    ELSE IsEntryOf(Get(model).outputs[i], i)

C2_Witness ==
    /\ pc = "done"
    /\ ~include_top
    /\ Len(residual_blocks) = 2
    /\ residual_blocks[1] = 2
    /\ residual_blocks[2] = 0
    /\ Get(model).outputs[1] = Get(model).outputs[2]
    /\ Get(model).outputs[1] # StemOutput

-----------------------------------------------------------------------------
(* C3 *)

NoTopLayers == Where(LAMBDA l : l.type \in {"GlobalAveragePooling", "Dense"}) = {}

\* C3: once the loop is over, include_top with classes <= 0 can only end in
\* the AssertionError, with neither pool5 nor fc1000 nor a model; include_top
\* with classes > 0 passes the assertion and builds the model; without
\* include_top the assertion is not evaluated and the model is built whatever
\* classes is.
C3_Assertion ==
    /\ (LoopDone /\ include_top /\ classes <= 0)
           => ENABLED TopAssertionError /\ ~ENABLED TopModel /\ ~ENABLED EncodingModel
    /\ (LoopDone /\ include_top /\ classes > 0)
           => ENABLED TopModel /\ ~ENABLED TopAssertionError
    /\ (LoopDone /\ ~include_top)
           => ENABLED EncodingModel /\ ~ENABLED TopAssertionError
    /\ pc = "AssertionError"
           => include_top /\ classes <= 0 /\ model = None /\ NoTopLayers
    /\ pc = "done" => model # None /\ (include_top => classes > 0)

C3_Witness == pc = "AssertionError" /\ classes = 0 /\ Len(layers) > 4

-----------------------------------------------------------------------------
(* C4 *)

\* the Activation that ends block 0 of the current stage
FirstBlockOutput ==
    CHOOSE i \in DOMAIN layers :
        layers[i].name = s_res \o Decimal(stage_id + 2) \o <<97>> \o s_relu

\* C4: in the loop of ResNet2D, when x is the output of a block of the current
\* stage, it has the length and the channels of the output of block 0 of that
\* stage, and the channels are `features` for the basic block and 4 * features
\* for the bottleneck block.
C4_StageShape ==
    (pc = "loop" /\ block_id > 0)
    => /\ layers[x].len = layers[FirstBlockOutput].len
       /\ layers[x].ch = layers[FirstBlockOutput].ch
       /\ layers[x].ch = (IF block = "basic_1d" THEN features ELSE 4 * features)

C4_Witness ==
    /\ pc = "loop"
    /\ block_id = 3
    /\ stage_id = 2
    /\ x # FirstBlockOutput
    /\ layers[x].len < layers[StemOutput].len

-----------------------------------------------------------------------------
(* C5 *)

\* C5: with stride=None both block functions take stride 2 exactly when
\* block == 0 and stage != 0, and stride 1 otherwise; they agree on every
\* (stage, block); an explicit stride is kept as given.
C5_Stride ==
    /\ pc \in {"f", "done", "ValueError"}
           => closure.stride =
                  (IF args.stride = None
                   THEN (IF args.block = 0 /\ args.stage # 0 THEN 2 ELSE 1)
                   ELSE Get(args.stride))
    /\ \A st \in 0..MaxStageArg, b \in 0..MaxBlockArg :
           basic_1d_stride(st, b, None) = bottleneck_1d_stride(st, b, None)

C5_Witness ==
    /\ pc = "done"
    /\ callee = "bottleneck_1d"
    /\ args.stride = None
    /\ args.block = 0
    /\ args.stage = 1
    /\ closure.stride = 2

-----------------------------------------------------------------------------
(* C6 *)

\* positions of the convolutions of the main branch, in creation order
MainConvs == Where(LAMBDA l : IsConv(l) /\ ~IsProjection(l))
FirstMainConv == CHOOSE i \in MainConvs : \A j \in MainConvs : i <= j

\* factor by which the shortcut path is strided: that of its projection, and 1
\* for the identity shortcut
ShortcutStride ==
    IF Where(IsProjection) = {} THEN 1
    ELSE layers[CHOOSE i \in Where(IsProjection) : TRUE].strides

\* C6 as stated, for the kernel size the padding of the blocks is made
\* for: whatever the block index, the first convolution and the shortcut are
\* strided by the block's stride, the later convolutions by 1, and the two
\* operands of the Add have one length.
C6_Original ==
    (pc \in {"done", "ValueError"} /\ args.kernel_size = 3)
    => /\ layers[FirstMainConv].strides = closure.stride
       /\ \A i \in MainConvs \ {FirstMainConv} : layers[i].strides = 1
       /\ ShortcutStride = closure.stride
       /\ TensorLen(inputs, layers, Branches(closure, inputs, <<>>, 0).y)
              = TensorLen(inputs, layers, Branches(closure, inputs, <<>>, 0).shortcut)

-----------------------------------------------------------------------------
(* C7 *)

\* C7 as stated: numerical_name alone decides between "b<block>" and
\* the letter.
C7_Original ==
    pc \in {"f", "done", "ValueError"}
    => /\ closure.block_char =
              (IF args.numerical_name THEN s_b \o Decimal(args.block)
               ELSE <<97 + args.block>>)
       /\ closure.stage_char = Decimal(args.stage + 2)

\* C7 (amended): the block component is "b<block>" when numerical_name is true
\* and block > 0, and the single character chr(ord('a') + block) when
\* numerical_name is false or block == 0; the stage component is the decimal
\* string of stage + 2; basic_1d and bottleneck_1d compute the same components.
C7_Naming ==
    /\ pc \in {"f", "done", "ValueError"}
           => /\ closure.block_char =
                     (IF args.numerical_name /\ args.block > 0
                      THEN s_b \o Decimal(args.block)
                      ELSE <<97 + args.block>>)
              /\ closure.stage_char = Decimal(args.stage + 2)
    /\ \A b \in 0..MaxBlockArg, n \in BOOLEAN :
           basic_1d_block_char(b, n) = bottleneck_1d_block_char(b, n)
    /\ \A st \in 0..MaxStageArg :
           basic_1d_stage_char(st) = bottleneck_1d_stage_char(st)

C7_Witness ==
    /\ pc = "done"
    /\ args.numerical_name
    /\ args.block = 0
    /\ closure.block_char = <<97>>
    /\ layers[Len(layers)].name = s_res \o <<50 + args.stage, 97>> \o s_relu

-----------------------------------------------------------------------------
(* C8 *)

\* C8 as stated: in every construction the list used at the lookup
\* numerical_names[stage_id] is as long as residual_blocks, and the lookup is
\* in range whenever it is made.
C8_Original ==
    /\ (InLoop /\ block_id > 0)
           => /\ Len(numerical_names) = Len(residual_blocks)
              /\ stage_id < Len(numerical_names)
    /\ pc # "IndexError"

-----------------------------------------------------------------------------
(* C9 *)

\* freeze_bn of the construction: the caller's, or the default of the callee
FreezeOfConstruction ==
    IF args.freeze_bn = None THEN callee = "ResNet2D" ELSE Get(args.freeze_bn)

\* C9: every BatchNormalization layer of a construction is created with the
\* freeze_bn of that construction, which is True for ResNet2D and False for
\* the variants when the caller gives none.
C9_Freeze ==
    \A i \in Where(IsBN) : layers[i].freeze = FreezeOfConstruction

C9_Witness ==
    /\ pc = "done"
    /\ callee = "ResNet2D50"
    /\ args.freeze_bn = None
    /\ \E i \in Where(IsBN) :
           EndsWith(layers[i].name, s_branch2c) /\ layers[i].freeze = FALSE
    /\ \E i \in Where(IsBN) :
           EndsWith(layers[i].name, s_branch1) /\ layers[i].freeze = FALSE

-----------------------------------------------------------------------------
(* C10 *)

\* C10: the names of the layers of one model are pairwise distinct.
C10_DistinctNames ==
    Cardinality({layers[i].name : i \in DOMAIN layers}) = Len(layers)

C10_Witness ==
    /\ pc = "done"
    /\ callee = "ResNet2D"
    /\ Len(residual_blocks) = 2
    /\ residual_blocks[1] = 2
    /\ residual_blocks[2] = 2
    /\ numerical_names = <<FALSE, TRUE>>
    /\ include_top
    /\ \E i \in DOMAIN layers : layers[i].name = s_res \o <<50, 98>> \o s_relu
    /\ \E i \in DOMAIN layers : layers[i].name = s_res \o <<51, 98, 49>> \o s_relu

=============================================================================
